---- MODULE Spec2Model ----
(***************************************************************************)
(* State-machine model of AdvancedScannerPrinter                           *)
(* (advanced_scanner_printer.py): the silent-printing fallback resolver    *)
(* print_direct_no_dialog / print_document_with_options, the scan          *)
(* operation scan_document_with_options and combine_scans_to_pdf.          *)
(*                                                                         *)
(* The program is single-threaded: a call runs to completion.  The call    *)
(* stack is explicit (stack), one frame per active call of                 *)
(* print_direct_no_dialog ("PDND") or print_document_with_options          *)
(* ("PDWO").  Each "if file_ext ...: try: ... except" block of the         *)
(* resolver is one action.  Outcomes of OS calls and external tools are    *)
(* nondeterministic choices of the action that makes the call.             *)
(***************************************************************************)
EXTENDS Integers, Sequences, FiniteSets, TLC

(* ------------------------------ bounds -------------------------------- *)
\* largest number of option keys a print request carries
MaxOpts == 1
\* largest number of pages pdf2image returns for a PDF
MaxPages == 2
\* recursion_depth values a caller passes to print_direct_no_dialog
MaxStartDepth == 3
\* largest number of devices in the WIA inventory
MaxDevices == 2
\* largest number of scans in one run
MaxScans == 2
\* largest number of paths handed to combine_scans_to_pdf
MaxInputs == 3
\* largest number of combine_scans_to_pdf calls in one run
MaxCombines == 2
\* largest number of installed printers win32print.EnumPrinters returns
MaxPrinters == 2
\* largest number of extract_text_from_image calls on one controller
MaxExtracts == 2

(* --------------------------- program constants ------------------------ *)
None == "None"
Printers == {"P1", "P2"}
\* the printer_name a caller passes; the default printer ranges over all
\* printers, so the target is, or is not, the default one
Targets == {"P1"}
\* win32print.GetDefaultPrinter raises when no default printer is set
NoDefault == "NoDefault"

ImageExts == {".jpg", ".jpeg", ".png", ".gif", ".bmp", ".tiff", ".tif"}
TextExts == {".txt", ".log", ".ini"}
ViewerExts == {".pdf", ".xps", ".epub", ".mobi", ".cbz", ".cbr"}
\* extensions of the files handed to the print entry points
InputExts == {".pdf", ".png", ".txt", ".xps", ".docx"}
OptionOrder == <<"copies", "orientation", "duplex", "paper_size", "quality">>
OptionNames == {OptionOrder[i] : i \in 1..Len(OptionOrder)}

VARIABLES
    stack,            \* call stack, innermost frame last
    result,           \* outcome of the outermost print call
    req,              \* arguments of the outermost print call
    defaultPrinter,   \* the system default printer
    preDefault,       \* the default printer when the outermost call began
    shellAvail,       \* SHELL_EXECUTE_AVAILABLE (win32ui / win32api imported)
    fs,               \* names of the files that exist
    child,            \* the script host launched through ShellExecute
    credit,           \* how the strategy that returned True saw its outcome
    applied,          \* option keys written into the job that printed
    spawned,          \* an external process was launched
    opened,           \* a printer handle was opened
    tempsMade,        \* a temporary file was created
    fallback,         \* print_document_with_options was entered from Method 12
    handleLeft        \* a call left a printer handle it had opened unclosed

printVars == <<stack, result, req, defaultPrinter, preDefault, shellAvail, fs,
               child, credit, applied, spawned, opened, tempsMade, fallback,
               handleLeft>>

VARIABLES
    devices,            \* the WIA device inventory, in enumeration order
    scanCalls,          \* scans made so far; the timestamp of the next one
    scansLeft,          \* scans the client will still ask for
    scanReq,            \* arguments of the last scan_document_with_options call
    scanRet,            \* what that call returned: a path, or None
    scanFiles,          \* the files the scans wrote, with their content format
    last_scanned_file,  \* self.last_scanned_file
    tempExists,         \* the last call's intermediate temp file still exists
    tempWritten,        \* the last call wrote its intermediate temp file
    unlinkFailed,       \* deleting that temp file was tried and failed
    convFallback,       \* the last call fell back to saving the raw JPG
    transferred,        \* the last call triggered scanner_item.Transfer()
    connectTo,          \* index of the device the last call connected to, or 0
    scanFailure         \* the step of the last call that raised, or "none"

scanVars == <<devices, scanCalls, scansLeft, scanReq, scanRet, scanFiles,
              last_scanned_file, tempExists, tempWritten, unlinkFailed,
              convFallback, transferred, connectTo, scanFailure>>

VARIABLES
    combCalls,          \* combine_scans_to_pdf calls made so far
    combIn,             \* file_paths of the last combine_scans_to_pdf call
    combRet,            \* what that call returned
    combWrote,          \* that call wrote output_pdf
    combSaveFailed,     \* that call's save of output_pdf raised
    outPdf              \* output_pdf: absent, or its pages

combVars == <<combCalls, combIn, combRet, combWrote, combSaveFailed, outPdf>>

VARIABLES
    installed,          \* the printers EnumPrinters lists, in its order
    invOp,              \* the inventory operation called last
    invRet,             \* the list that call returned
    invFail,            \* where that call's enumeration failed, if it did
    invHandles          \* printers whose handle an inventory call left open

invVars == <<installed, invOp, invRet, invFail, invHandles>>

VARIABLES
    argv,               \* sys.argv[1:] of the command-line run
    exitCode,           \* the exit status of that run
    inMenu,             \* that run entered the interactive menu, main()
    sumReq,             \* arguments of the last print_with_sumatra call
    sumRet,             \* what that call returned
    sumTarget,          \* the printer named after -print-to, if a job was sent
    sumRan              \* the viewer process ran and exited with status zero

sumVars == <<argv, exitCode, inMenu, sumReq, sumRet, sumTarget, sumRan>>

VARIABLES
    constructed,        \* __init__ has run
    apiKeySet,          \* GOOGLE_API_KEY was set in the environment
    GEMINI_AVAILABLE,   \* self.GEMINI_AVAILABLE
    aiCalls,            \* extract_text_from_image calls made so far
    aiReq,              \* arguments of the last extract_text_from_image call
    aiRet,              \* the pair that call returned
    aiContacted,        \* that call sent a request to the service
    aiProvided,         \* the service's response carried an image
    aiSaved             \* the files that call wrote

aiVars == <<constructed, apiKeySet, GEMINI_AVAILABLE, aiCalls, aiReq, aiRet,
            aiContacted, aiProvided, aiSaved>>

VARIABLES
    dmDevice,           \* the DEVMODE settings GetPrinter reads from the device
    dmOptions,          \* the option keys of the request, with their values
    dmSet,              \* the DEVMODE settings after the option assignments
    dmDone              \* the direct print API path has set the options

dmVars == <<dmDevice, dmOptions, dmSet, dmDone>>

otherVars == <<scanVars, combVars, invVars, sumVars, aiVars, dmVars>>

vars == <<printVars, scanVars, combVars, invVars, sumVars, aiVars, dmVars>>

(* ------------------------------ frames -------------------------------- *)
NoReq == [entry |-> "none", ext |-> "", printer |-> None, opts |-> {},
          silent |-> TRUE, use_shell |-> TRUE, ultra |-> TRUE, depth |-> 0,
          inTemp |-> FALSE, exists |-> FALSE]

NoDone == [ext |-> "", depth |-> 0, tried |-> <<>>, rv |-> "none"]

Frame(fn, file, ext, printer, depth, silent, use_shell, ultra, opts, nest) ==
    [fn |-> fn, file |-> file, ext |-> ext, printer |-> printer,
     depth |-> depth, pc |-> "entry", tried |-> <<>>, rv |-> "none",
     sub |-> "none", page |-> 0, npages |-> 0, success |-> FALSE,
     silent |-> silent, use_shell |-> use_shell, ultra |-> ultra,
     opts |-> opts, nest |-> nest]

Top == stack[Len(stack)]

SetTop(f) == [stack EXCEPT ![Len(stack)] = f]

Push(caller, callee) == Append(SetTop(caller), callee)

Running(fn, pc) == stack # <<>> /\ Top.fn = fn /\ Top.pc = pc

BoolStr(b) == IF b THEN "true" ELSE "false"

\* Method 4 (Adobe) moved in front of Method 3 (SumatraPDF)
AfterReordered(s) == IF s = 3 THEN 5 ELSE IF s = 5 THEN 4 ELSE IF s = 4 THEN 6 ELSE s + 1

\* the next "if file_ext ..." block of print_direct_no_dialog, in source order
After(s) == s + 1

Pc(s) == <<"S1", "S2", "S3", "S4", "S5", "S6", "S7", "S8", "S9", "S10",
           "S11", "S12", "S13">>[s]

\* a strategy was executed and failed: the except clause logs and falls through
Failed(f, s) ==
    [f EXCEPT !.tried = Append(@, [s |-> s, ok |-> FALSE]), !.pc = Pc(After(s))]

\* the extension filter of a block does not hold: the block is skipped
Skipped(f, s) == [f EXCEPT !.pc = Pc(After(s))]

\* a strategy succeeded: "return True"
Succeeded(f, s) ==
    [f EXCEPT !.tried = Append(@, [s |-> s, ok |-> TRUE]), !.pc = "ret",
              !.rv = "true"]

Returns(f, v) == [f EXCEPT !.pc = "ret", !.rv = v]

\* subprocess.run without a timeout on a tool that never exits: the call
\* stays blocked in the strategy
Hung(f) == [f EXCEPT !.pc = "hung"]

\* the existence check left out
ExistsUnchecked(file) == TRUE

\* os.path.exists(file_path)
Exists(file) == file \in fs

(* ------------------------------- Init --------------------------------- *)
PrintInit ==
    /\ stack = <<>>
    /\ result = "idle"
    /\ req = NoReq
    /\ defaultPrinter \in Printers \cup {NoDefault}
    /\ preDefault = defaultPrinter
    /\ shellAvail \in BOOLEAN
    /\ fs \in {{}, {"input"}}
    /\ child = "none"
    /\ credit = "none"
    /\ applied = {}
    /\ spawned = FALSE
    /\ opened = FALSE
    /\ tempsMade = FALSE
    /\ fallback = FALSE
    /\ handleLeft = FALSE

(* --------------------- the callers of the resolver --------------------- *)
\* the option keys of a request: the first n keys, n up to MaxOpts
OptSets == {{OptionOrder[i] : i \in 1..n} : n \in 0..MaxOpts}

\* a caller invokes print_direct_no_dialog(file_path, printer_name, depth);
\* inTemp tells whether file_path lies below the temp directory, which the
\* code reads for ".pdf" paths only (line 1087)
CallPrintDirect ==
    /\ result = "idle"
    /\ \E ext \in InputExts, p \in Targets \cup {None}, d \in 0..MaxStartDepth,
          tmp \in BOOLEAN :
        /\ tmp => ext = ".pdf"
        /\ req' = [entry |-> "PDND", ext |-> ext, printer |-> p, opts |-> {},
                   silent |-> TRUE, use_shell |-> TRUE, ultra |-> TRUE,
                   depth |-> d, inTemp |-> tmp, exists |-> "input" \in fs]
        /\ stack' = <<Frame("PDND", "input", ext, p, d, FALSE, FALSE, FALSE, {}, 0)>>
    /\ result' = "pending"
    /\ preDefault' = defaultPrinter
    /\ UNCHANGED <<defaultPrinter, shellAvail, fs, child, credit, applied,
                   spawned, opened, tempsMade, fallback,
                   handleLeft>>
    /\ UNCHANGED otherVars

\* a caller invokes print_document_with_options(file_path, printer_name, options)
CallPrintOptions ==
    /\ result = "idle"
    /\ \E ext \in InputExts, p \in Targets \cup {None}, o \in OptSets,
          tmp \in BOOLEAN, si \in BOOLEAN, sh \in BOOLEAN, ul \in BOOLEAN :
        /\ tmp => ext = ".pdf"
        /\ req' = [entry |-> "PDWO", ext |-> ext, printer |-> p, opts |-> o,
                   silent |-> si, use_shell |-> sh, ultra |-> ul,
                   depth |-> 0, inTemp |-> tmp, exists |-> "input" \in fs]
        /\ stack' = <<Frame("PDWO", "input", ext, p, 0, si, sh, ul, o, 0)>>
    /\ result' = "pending"
    /\ preDefault' = defaultPrinter
    /\ UNCHANGED <<defaultPrinter, shellAvail, fs, child, credit, applied,
                   spawned, opened, tempsMade, fallback,
                   handleLeft>>
    /\ UNCHANGED otherVars

(* ---------------------- print_direct_no_dialog ------------------------ *)
\* lines 295-312: recursion guard, existence check, default printer
PDND_Entry ==
    /\ Running("PDND", "entry")
    /\ stack' = SetTop(
         IF Top.depth > 2 THEN Returns(Top, "false")
         ELSE IF ~Exists(Top.file) THEN Returns(Top, "false")
         ELSE IF Top.printer = None
              THEN IF defaultPrinter = NoDefault
                   THEN [Top EXCEPT !.pc = "raise"]
                   ELSE [Top EXCEPT !.printer = defaultPrinter, !.pc = "S1"]
              ELSE [Top EXCEPT !.pc = "S1"])
    /\ UNCHANGED <<result, req, defaultPrinter, preDefault, shellAvail, fs,
                   child, credit, applied, spawned, opened, tempsMade,
                   fallback,
                   handleLeft>>
    /\ UNCHANGED otherVars

\* lines 314-321 with print_image_direct (1155-1303): Photo Viewer through
\* rundll32 (waited on, check=True), then the EMF method, then a RAW job
PDND_ImageDirect ==
    /\ Running("PDND", "S1")
    /\ IF Top.ext \in ImageExts
       THEN \E m \in {"photoviewer", "emf", "raw", "none"}, rundll \in BOOLEAN :
              /\ m = "photoviewer" => rundll
              /\ spawned' = (spawned \/ rundll)
              /\ opened' = (opened \/ m \in {"raw", "none"})
              /\ IF m = "none"
                 THEN /\ stack' = SetTop(Failed(Top, 1))
                      /\ UNCHANGED credit
                 ELSE /\ stack' = SetTop(Succeeded(Top, 1))
                      /\ credit' = IF m = "photoviewer" THEN "exit0" ELSE "oscall"
       ELSE /\ stack' = SetTop(Skipped(Top, 1))
            /\ UNCHANGED <<credit, spawned, opened>>
    /\ UNCHANGED <<result, req, defaultPrinter, preDefault, shellAvail, fs,
                   child, applied, tempsMade, fallback,
                   handleLeft>>
    /\ UNCHANGED otherVars

\* lines 323-362, Method 1: GhostScript, located by glob, subprocess.run(check=True)
\* with no timeout (line 356)
PDND_GhostScript ==
    /\ Running("PDND", "S2")
    /\ IF Top.ext = ".pdf"
       THEN \/ \E found \in BOOLEAN, ok \in BOOLEAN :
              /\ ok => found
              /\ spawned' = (spawned \/ found)
              /\ IF ok
                 THEN /\ stack' = SetTop(Succeeded(Top, 2))
                      /\ credit' = "exit0"
                 ELSE /\ stack' = SetTop(IF found THEN Failed(Top, 2) ELSE Skipped(Top, 2))
                      /\ UNCHANGED credit
            \/ /\ spawned' = TRUE
               /\ stack' = SetTop(Hung(Top))
               /\ UNCHANGED credit
       ELSE /\ stack' = SetTop(Skipped(Top, 2))
            /\ UNCHANGED <<credit, spawned>>
    /\ UNCHANGED <<result, req, defaultPrinter, preDefault, shellAvail, fs,
                   child, applied, opened, tempsMade, fallback,
                   handleLeft>>
    /\ UNCHANGED otherVars

\* lines 364-385, Method 2: raw spooler write of a text file
PDND_TextRaw ==
    /\ Running("PDND", "S3")
    /\ IF Top.ext \in TextExts
       THEN \E r \in {"openfail", "jobfail", "ok"} :
              /\ opened' = (opened \/ r # "openfail")
              /\ IF r = "ok"
                 THEN /\ stack' = SetTop(Succeeded(Top, 3))
                      /\ credit' = "oscall"
                 ELSE /\ stack' = SetTop(Failed(Top, 3))
                      /\ UNCHANGED credit
       ELSE /\ stack' = SetTop(Skipped(Top, 3))
            /\ UNCHANGED <<credit, opened>>
    /\ UNCHANGED <<result, req, defaultPrinter, preDefault, shellAvail, fs,
                   child, applied, spawned, tempsMade, fallback,
                   handleLeft>>
    /\ UNCHANGED otherVars

\* lines 387-499, Method 3: SumatraPDF from the probed install paths (or the
\* downloaded binary), then the bare "sumatrapdf" command; both waited on
\* with timeout=60 / 30, so a viewer that never exits is a failed run
PDND_Sumatra ==
    /\ Running("PDND", "S4")
    /\ IF Top.ext \in ViewerExts
       THEN \E r \in {"binary_ok", "command_ok", "fail"} :
              /\ spawned' = TRUE
              /\ IF r = "fail"
                 THEN /\ stack' = SetTop(Failed(Top, 4))
                      /\ UNCHANGED credit
                 ELSE /\ stack' = SetTop(Succeeded(Top, 4))
                      /\ credit' = "exit0"
       ELSE /\ stack' = SetTop(Skipped(Top, 4))
            /\ UNCHANGED <<credit, spawned>>
    /\ UNCHANGED <<result, req, defaultPrinter, preDefault, shellAvail, fs,
                   child, applied, opened, tempsMade, fallback,
                   handleLeft>>
    /\ UNCHANGED otherVars

\* lines 501-547, Method 4: Adobe Reader prints to the default printer, which
\* is switched to the target before the run and back only after a good run;
\* subprocess.run has no timeout (line 538)
PDND_Adobe ==
    /\ Running("PDND", "S5")
    /\ IF Top.ext = ".pdf"
       THEN \E found \in BOOLEAN, ok \in BOOLEAN :
              /\ ok => found /\ defaultPrinter # NoDefault
              /\ IF ~found
                 THEN /\ stack' = SetTop(Skipped(Top, 5))
                      /\ UNCHANGED <<credit, spawned, defaultPrinter>>
                 ELSE IF defaultPrinter = NoDefault
                 THEN /\ stack' = SetTop(Failed(Top, 5))
                      /\ UNCHANGED <<credit, spawned, defaultPrinter>>
                 ELSE /\ spawned' = TRUE
                      /\ IF ok
                         THEN /\ stack' = SetTop(Succeeded(Top, 5))
                              /\ credit' = "exit0"
                              /\ UNCHANGED defaultPrinter
                         ELSE /\ \E exits \in BOOLEAN :
                                   stack' = SetTop(IF exits THEN Failed(Top, 5)
                                                            ELSE Hung(Top))
                              /\ defaultPrinter' = Top.printer
                              /\ UNCHANGED credit
       ELSE /\ stack' = SetTop(Skipped(Top, 5))
            /\ UNCHANGED <<credit, spawned, defaultPrinter>>
    /\ UNCHANGED <<result, req, preDefault, shellAvail, fs, child, applied,
                   opened, tempsMade, fallback,
                   handleLeft>>
    /\ UNCHANGED otherVars

\* lines 549-626, Method 5: a temporary PowerShell script, run with check=True
\* and no timeout (line 615);
\* the script is unlinked only after a good run
PDND_PowerShell ==
    /\ Running("PDND", "S6")
    /\ IF Top.ext = ".pdf"
       THEN \E ok \in BOOLEAN :
              /\ spawned' = TRUE
              /\ tempsMade' = TRUE
              /\ IF ok
                 THEN /\ stack' = SetTop(Succeeded(Top, 6))
                      /\ credit' = "exit0"
                      /\ UNCHANGED fs
                 ELSE /\ \E exits \in BOOLEAN :
                           stack' = SetTop(IF exits THEN Failed(Top, 6)
                                                    ELSE Hung(Top))
                      /\ fs' = fs \cup {"tmp_ps1"}
                      /\ UNCHANGED credit
       ELSE /\ stack' = SetTop(Skipped(Top, 6))
            /\ UNCHANGED <<credit, spawned, tempsMade, fs>>
    /\ UNCHANGED <<result, req, defaultPrinter, preDefault, shellAvail, child,
                   applied, opened, fallback,
                   handleLeft>>
    /\ UNCHANGED otherVars

\* lines 628-646, Method 6: win32api.ShellExecute "print" verb on the default
\* printer; win32api is None when the import failed
PDND_ShellExecute ==
    /\ Running("PDND", "S7")
    /\ IF Top.ext = ".pdf"
       THEN \E ok \in BOOLEAN :
              /\ ok => shellAvail /\ defaultPrinter # NoDefault
              /\ IF defaultPrinter = NoDefault
                 THEN /\ stack' = SetTop(Failed(Top, 7))
                      /\ UNCHANGED <<credit, spawned, defaultPrinter>>
                 ELSE IF ok
                 THEN /\ stack' = SetTop(Succeeded(Top, 7))
                      /\ credit' = "oscall"
                      /\ spawned' = TRUE
                      /\ UNCHANGED defaultPrinter
                 ELSE /\ stack' = SetTop(Failed(Top, 7))
                      /\ defaultPrinter' = Top.printer
                      /\ spawned' = (spawned \/ shellAvail)
                      /\ UNCHANGED credit
       ELSE /\ stack' = SetTop(Skipped(Top, 7))
            /\ UNCHANGED <<credit, spawned, defaultPrinter>>
    /\ UNCHANGED <<result, req, preDefault, shellAvail, fs, child, applied,
                   opened, tempsMade, fallback,
                   handleLeft>>
    /\ UNCHANGED otherVars

\* the conversion strategies tried at every depth
ConvertsAtAnyDepth(depth) == TRUE

\* lines 649 and 711: "and recursion_depth == 0" guards Method 7 and Method 9
MayConvert(depth) == depth = 0

\* lines 648-664, Method 7 up to the recursive call: at depth 0 an image is
\* converted to a temporary PDF and the chain is re-entered one level deeper
PDND_ImageToPdf ==
    /\ Running("PDND", "S8")
    /\ IF Top.ext \in ImageExts /\ MayConvert(Top.depth)
       THEN \E conv \in BOOLEAN :
              /\ tempsMade' = TRUE
              /\ fs' = fs \cup {"tmp_pdf"}
              /\ stack' = IF conv
                    THEN Push([Top EXCEPT !.pc = "S8wait", !.sub = "none"],
                              Frame("PDND", "tmp_pdf", ".pdf", Top.printer,
                                    Top.depth + 1, FALSE, FALSE, FALSE, {}, 0))
                    ELSE SetTop(Failed(Top, 8))
       ELSE /\ stack' = SetTop(Skipped(Top, 8))
            /\ UNCHANGED <<tempsMade, fs>>
    /\ UNCHANGED <<result, req, defaultPrinter, preDefault, shellAvail, child,
                   credit, applied, spawned, opened, fallback,
                   handleLeft>>
    /\ UNCHANGED otherVars

\* lines 664-674, Method 7 after the recursive call: unlink the temporary PDF
\* and "return result", whatever the result is
PDND_ImageToPdfRet ==
    /\ Running("PDND", "S8wait")
    /\ Top.sub # "none"
    /\ IF Top.sub = "raised"
       THEN /\ stack' = SetTop(Failed(Top, 8))
            /\ UNCHANGED fs
       ELSE /\ fs' = fs \ {"tmp_pdf"}
            /\ stack' = SetTop(
                 [Top EXCEPT !.tried = Append(@, [s |-> 8, ok |-> Top.sub = "true"]),
                             !.pc = "ret", !.rv = Top.sub])
    /\ UNCHANGED <<result, req, defaultPrinter, preDefault, shellAvail, child,
                   credit, applied, spawned, opened, tempsMade, fallback,
                   handleLeft>>
    /\ UNCHANGED otherVars

\* lines 676-708, Method 8: the decoded bitmap is written RAW to the spooler
PDND_ImageRaw ==
    /\ Running("PDND", "S9")
    /\ IF Top.ext \in ImageExts
       THEN \E r \in {"imgfail", "openfail", "jobfail", "ok"} :
              /\ opened' = (opened \/ r \in {"jobfail", "ok"})
              /\ IF r = "ok"
                 THEN /\ stack' = SetTop(Succeeded(Top, 9))
                      /\ credit' = "oscall"
                 ELSE /\ stack' = SetTop(Failed(Top, 9))
                      /\ UNCHANGED credit
       ELSE /\ stack' = SetTop(Skipped(Top, 9))
            /\ UNCHANGED <<credit, opened>>
    /\ UNCHANGED <<result, req, defaultPrinter, preDefault, shellAvail, fs,
                   child, applied, spawned, tempsMade, fallback,
                   handleLeft>>
    /\ UNCHANGED otherVars

\* lines 710-727, Method 9 up to the page loop: at depth 0 a PDF is rasterized
\* with pdf2image into pages kept in a fresh temporary directory
PDND_PdfToImages ==
    /\ Running("PDND", "S10")
    /\ IF Top.ext = ".pdf" /\ MayConvert(Top.depth)
       THEN \E r \in {"noimport", "convfail", "pages"}, n \in 1..MaxPages :
              IF r = "pages"
              THEN /\ stack' = SetTop([Top EXCEPT !.pc = "S10loop", !.page = 0,
                                                  !.npages = n, !.success = FALSE])
                   /\ fs' = fs \cup {"tmp_dir"}
                   /\ tempsMade' = TRUE
              ELSE /\ stack' = SetTop(IF r = "noimport" THEN Skipped(Top, 10)
                                                        ELSE Failed(Top, 10))
                   /\ UNCHANGED <<fs, tempsMade>>
       ELSE /\ stack' = SetTop(Skipped(Top, 10))
            /\ UNCHANGED <<fs, tempsMade>>
    /\ UNCHANGED <<result, req, defaultPrinter, preDefault, shellAvail, child,
                   credit, applied, spawned, opened, fallback,
                   handleLeft>>
    /\ UNCHANGED otherVars

\* lines 723-752: images, success and the loop index are locals of Method 9's
\* block; they are dead once the block is left
EndPages(f) == [f EXCEPT !.page = 0, !.npages = 0, !.success = FALSE, !.sub = "none"]

\* lines 729-735 and 744-752: save the next page and print it one level
\* deeper; after the last page remove the directory and return True if some
\* page printed. img.save (line 731) is not guarded inside the loop: when it
\* raises, the loop is left for the except clause of line 755
PDND_PageLoop ==
    /\ Running("PDND", "S10loop")
    /\ IF Top.page < Top.npages
       THEN \/ /\ fs' = fs \cup {"tmp_page"}
               /\ stack' = Push([Top EXCEPT !.pc = "S10wait", !.sub = "none"],
                                Frame("PDND", "tmp_page", ".png", Top.printer,
                                      Top.depth + 1, FALSE, FALSE, FALSE, {}, 0))
            \/ /\ UNCHANGED fs
               /\ stack' = SetTop(Failed(EndPages(Top), 10))
       ELSE /\ fs' = fs \ {"tmp_dir"}
            /\ stack' = SetTop(IF Top.success THEN Succeeded(EndPages(Top), 10)
                                              ELSE Failed(EndPages(Top), 10))
    /\ UNCHANGED <<result, req, defaultPrinter, preDefault, shellAvail, child,
                   credit, applied, spawned, opened, tempsMade, fallback,
                   handleLeft>>
    /\ UNCHANGED otherVars

\* lines 735-742: the page's result is or-ed into success, the page is unlinked
PDND_PageRet ==
    /\ Running("PDND", "S10wait")
    /\ Top.sub # "none"
    /\ IF Top.sub = "raised"
       THEN /\ stack' = SetTop(Failed(EndPages(Top), 10))
            /\ UNCHANGED fs
       ELSE /\ fs' = fs \ {"tmp_page"}
            /\ stack' = SetTop([Top EXCEPT !.pc = "S10loop", !.page = @ + 1,
                                           !.success = @ \/ Top.sub = "true"])
    /\ UNCHANGED <<result, req, defaultPrinter, preDefault, shellAvail, child,
                   credit, applied, spawned, opened, tempsMade, fallback,
                   handleLeft>>
    /\ UNCHANGED otherVars

\* lines 758-800, Method 10: headless Chrome, default printer switched as in
\* Method 4, subprocess.run(check=True, timeout=30)
PDND_Chrome ==
    /\ Running("PDND", "S11")
    /\ IF Top.ext = ".pdf"
       THEN \E found \in BOOLEAN, ok \in BOOLEAN :
              /\ ok => found /\ defaultPrinter # NoDefault
              /\ IF ~found
                 THEN /\ stack' = SetTop(Skipped(Top, 11))
                      /\ UNCHANGED <<credit, spawned, defaultPrinter>>
                 ELSE IF defaultPrinter = NoDefault
                 THEN /\ stack' = SetTop(Failed(Top, 11))
                      /\ UNCHANGED <<credit, spawned, defaultPrinter>>
                 ELSE /\ spawned' = TRUE
                      /\ IF ok
                         THEN /\ stack' = SetTop(Succeeded(Top, 11))
                              /\ credit' = "exit0"
                              /\ UNCHANGED defaultPrinter
                         ELSE /\ stack' = SetTop(Failed(Top, 11))
                              /\ defaultPrinter' = Top.printer
                              /\ UNCHANGED credit
       ELSE /\ stack' = SetTop(Skipped(Top, 11))
            /\ UNCHANGED <<credit, spawned, defaultPrinter>>
    /\ UNCHANGED <<result, req, preDefault, shellAvail, fs, child, applied,
                   opened, tempsMade, fallback,
                   handleLeft>>
    /\ UNCHANGED otherVars

\* lines 802-855, Method 11: a temporary VBScript run by cscript with
\* check=True and no timeout (line 844); the script itself may make the target the default printer
\* (objNetwork.SetDefaultPrinter); the file is unlinked only after a good run
PDND_VBScript ==
    /\ Running("PDND", "S12")
    /\ IF Top.ext = ".pdf"
       THEN \E ok \in BOOLEAN, setsDefault \in BOOLEAN :
              /\ spawned' = TRUE
              /\ tempsMade' = TRUE
              /\ defaultPrinter' = IF setsDefault THEN Top.printer ELSE defaultPrinter
              /\ IF ok
                 THEN /\ stack' = SetTop(Succeeded(Top, 12))
                      /\ credit' = "exit0"
                      /\ UNCHANGED fs
                 ELSE /\ \E exits \in BOOLEAN :
                           stack' = SetTop(IF exits THEN Failed(Top, 12)
                                                    ELSE Hung(Top))
                      /\ fs' = fs \cup {"tmp_vbs"}
                      /\ UNCHANGED credit
       ELSE /\ stack' = SetTop(Skipped(Top, 12))
            /\ UNCHANGED <<credit, spawned, tempsMade, fs, defaultPrinter>>
    /\ UNCHANGED <<result, req, preDefault, shellAvail, child, applied, opened,
                   fallback,
                   handleLeft>>
    /\ UNCHANGED otherVars

\* lines 857-866, Method 12: a PDF at depth 0 is handed to
\* print_document_with_options with ultra_silent off; anything else fails
PDND_Fallback ==
    /\ Running("PDND", "S13")
    /\ IF Top.ext = ".pdf" /\ Top.depth < 1
       THEN /\ stack' = Push([Top EXCEPT !.pc = "S13wait", !.sub = "none"],
                             Frame("PDWO", Top.file, Top.ext, Top.printer, 0,
                                   TRUE, TRUE, FALSE, {}, 0))
            /\ fallback' = TRUE
       ELSE /\ stack' = SetTop(Returns(Top, "false"))
            /\ UNCHANGED fallback
    /\ UNCHANGED <<result, req, defaultPrinter, preDefault, shellAvail, fs,
                   child, credit, applied, spawned, opened, tempsMade,
                   handleLeft>>
    /\ UNCHANGED otherVars

\* line 863: "return self.print_document_with_options(...)"
PDND_FallbackRet ==
    /\ Running("PDND", "S13wait")
    /\ Top.sub # "none"
    /\ stack' = SetTop(IF Top.sub = "raised" THEN [Top EXCEPT !.pc = "raise"]
                                             ELSE Returns(Top, Top.sub))
    /\ UNCHANGED <<result, req, defaultPrinter, preDefault, shellAvail, fs,
                   child, credit, applied, spawned, opened, tempsMade,
                   fallback,
                   handleLeft>>
    /\ UNCHANGED otherVars

\* the print_direct_no_dialog call that is returning: its extension, depth,
\* executed strategies and value
lastDone ==
    IF stack # <<>> /\ Top.fn = "PDND" /\ Top.pc \in {"ret", "raise"}
    THEN [ext |-> Top.ext, depth |-> Top.depth, tried |-> Top.tried,
          rv |-> IF Top.pc = "raise" THEN "raised" ELSE Top.rv]
    ELSE NoDone

\* a call returns (or raises) to its caller, or to the outside
Return ==
    /\ stack # <<>>
    /\ Top.pc \in {"ret", "raise"}
    /\ LET v == IF Top.pc = "raise" THEN "raised" ELSE Top.rv
           rest == SubSeq(stack, 1, Len(stack) - 1)
       IN  /\ IF rest = <<>>
              THEN /\ stack' = <<>>
                   /\ result' = v
              ELSE /\ stack' = [rest EXCEPT ![Len(rest)].sub = v]
                   /\ UNCHANGED result
    /\ UNCHANGED <<req, defaultPrinter, preDefault, shellAvail, fs, child,
                   credit, applied, spawned, opened, tempsMade, fallback,
                   handleLeft>>
    /\ UNCHANGED otherVars

(* -------------------- print_document_with_options --------------------- *)
\* file_path.startswith(tempfile.gettempdir())
InTempDir(file) == file # "input" \/ req.inTemp

\* lines 888-902: option defaults (already in the frame); with ultra_silent
\* the call is handed to print_direct_no_dialog(file_path, printer_name)
PDWO_Entry ==
    /\ Running("PDWO", "entry")
    /\ stack' = IF Top.ultra
                THEN Push([Top EXCEPT !.pc = "uwait", !.sub = "none"],
                          Frame("PDND", Top.file, Top.ext, Top.printer, 0,
                                FALSE, FALSE, FALSE, {}, 0))
                ELSE SetTop([Top EXCEPT !.pc = "body"])
    /\ UNCHANGED <<result, req, defaultPrinter, preDefault, shellAvail, fs,
                   child, credit, applied, spawned, opened, tempsMade,
                   fallback,
                   handleLeft>>
    /\ UNCHANGED otherVars

\* lines 901-905: the ultra-silent result is returned as it is; only an
\* exception continues with the regular methods
PDWO_UltraRet ==
    /\ Running("PDWO", "uwait")
    /\ Top.sub # "none"
    /\ stack' = SetTop(IF Top.sub = "raised" THEN [Top EXCEPT !.pc = "body"]
                                             ELSE Returns(Top, Top.sub))
    /\ UNCHANGED <<result, req, defaultPrinter, preDefault, shellAvail, fs,
                   child, credit, applied, spawned, opened, tempsMade,
                   fallback,
                   handleLeft>>
    /\ UNCHANGED otherVars

\* lines 907-985: existence check, default printer, Method 1: wscript.exe is
\* launched on a temporary VBScript through ShellExecute, the code sleeps two
\* seconds, unlinks the script, restores the default printer and returns True
PDWO_Silent ==
    /\ Running("PDWO", "body")
    /\ \E ok \in BOOLEAN :
        LET p == IF Top.printer = None THEN defaultPrinter ELSE Top.printer
        IN  /\ ok => /\ Exists(Top.file)
                     /\ Top.silent
                     /\ shellAvail
                     /\ defaultPrinter # NoDefault
            /\ IF ~Exists(Top.file)
               THEN /\ stack' = SetTop(Returns(Top, "false"))
                    /\ UNCHANGED <<defaultPrinter, fs, child, credit, spawned,
                                   tempsMade>>
               ELSE IF defaultPrinter = NoDefault /\ (Top.printer = None \/ Top.silent)
               THEN /\ stack' = SetTop([Top EXCEPT !.pc = "handler"])
                    /\ UNCHANGED <<defaultPrinter, fs, child, credit, spawned,
                                   tempsMade>>
               ELSE IF ~Top.silent
               THEN /\ stack' = SetTop([Top EXCEPT !.printer = p, !.pc = "M2"])
                    /\ UNCHANGED <<defaultPrinter, fs, child, credit, spawned,
                                   tempsMade>>
               ELSE /\ tempsMade' = TRUE
                    /\ IF ok
                       THEN /\ stack' = SetTop(Returns([Top EXCEPT !.printer = p], "true"))
                            /\ child' = "running"
                            /\ credit' = "launched"
                            /\ spawned' = TRUE
                            /\ UNCHANGED <<defaultPrinter, fs>>
                       ELSE /\ stack' = SetTop([Top EXCEPT !.printer = p, !.pc = "M2"])
                            /\ defaultPrinter' = p
                            /\ fs' = fs \cup {"tmp_vbs2"}
                            /\ spawned' = (spawned \/ shellAvail)
                            /\ UNCHANGED <<child, credit>>
    /\ UNCHANGED <<result, req, preDefault, shellAvail, applied, opened,
                   fallback,
                   handleLeft>>
    /\ UNCHANGED otherVars

\* the launched script host ends, some time after it was started
ChildExit ==
    /\ child = "running"
    /\ child' \in {"exit0", "exit1"}
    /\ UNCHANGED <<stack, result, req, defaultPrinter, preDefault, shellAvail,
                   fs, credit, applied, spawned, opened, tempsMade, fallback,
                   handleLeft>>
    /\ UNCHANGED otherVars

\* lines 987-1011, Method 2: ShellExecute "print" on the default printer
PDWO_Shell ==
    /\ Running("PDWO", "M2")
    /\ IF Top.use_shell /\ shellAvail
       THEN IF defaultPrinter = NoDefault
            THEN /\ stack' = SetTop([Top EXCEPT !.pc = "handler"])
                 /\ UNCHANGED <<defaultPrinter, credit, spawned>>
            ELSE /\ spawned' = TRUE
                 /\ \E ok \in BOOLEAN :
                      IF ok
                      THEN /\ stack' = SetTop(Returns(Top, "true"))
                           /\ credit' = "oscall"
                           /\ UNCHANGED defaultPrinter
                      ELSE /\ stack' = SetTop([Top EXCEPT !.pc = "handler"])
                           /\ defaultPrinter' = Top.printer
                           /\ UNCHANGED credit
       ELSE /\ stack' = SetTop([Top EXCEPT !.pc = "M3"])
            /\ UNCHANGED <<defaultPrinter, credit, spawned>>
    /\ UNCHANGED <<result, req, preDefault, shellAvail, fs, child, applied,
                   opened, tempsMade, fallback,
                   handleLeft>>
    /\ UNCHANGED otherVars

\* lines 1058-1067: only the option keys present in the request are written
\* into the DEVMODE, and only when win32ui was imported
DevModeOptions(opts) == IF shellAvail THEN opts \cap OptionNames ELSE {}

\* lines 1013-1094, Method 3: an image is first converted to a temporary PDF;
\* the file is written RAW through an opened printer handle; afterwards a
\* ".pdf" path below the temp directory is unlinked.  GetPrinter, SetPrinter
\* ("setfail") and StartDocPrinter ("docfail") are called between OpenPrinter
\* and the try/finally that holds ClosePrinter (lines 1050-1084)
PDWO_Direct ==
    /\ Running("PDWO", "M3")
    /\ \E conv \in BOOLEAN,
          r \in {"openfail", "setfail", "docfail", "writefail", "ok"} :
        LET isImg == Top.ext \in ImageExts
            converted == isImg /\ conv
            file2 == IF converted THEN "tmp_pdf3" ELSE Top.file
            ext2 == IF converted THEN ".pdf" ELSE Top.ext
            fs1 == IF converted THEN fs \cup {"tmp_pdf3"} ELSE fs
            cleanup == r \in {"writefail", "ok"} /\ ext2 = ".pdf" /\ InTempDir(file2)
            f2 == [Top EXCEPT !.file = file2, !.ext = ext2]
        IN  /\ ~isImg => conv
            /\ r = "setfail" => shellAvail
            /\ tempsMade' = (tempsMade \/ isImg)
            /\ opened' = (opened \/ r # "openfail")
            /\ handleLeft' = (handleLeft \/ r \in {"setfail", "docfail"})
            /\ fs' = IF cleanup THEN fs1 \ {file2} ELSE fs1
            /\ IF r = "ok"
               THEN /\ stack' = SetTop(Returns(f2, "true"))
                    /\ credit' = "oscall"
                    /\ applied' = DevModeOptions(Top.opts)
               ELSE /\ stack' = SetTop([f2 EXCEPT !.pc = "handler"])
                    /\ UNCHANGED <<credit, applied>>
    /\ UNCHANGED <<result, req, defaultPrinter, preDefault, shellAvail, child,
                   spawned, fallback>>
    /\ UNCHANGED otherVars

\* the handler toggling use_shell whenever silent is already off
RetryFlagsToggling(silent, use_shell) ==
    IF silent THEN [retry |-> TRUE, silent |-> FALSE, use_shell |-> use_shell]
    ELSE [retry |-> TRUE, silent |-> FALSE, use_shell |-> ~use_shell]

\* lines 1099-1111: the flag the except clause flips before it calls
\* print_document_with_options again; no retry when none of its tests holds
RetryFlags(silent, use_shell) ==
    IF silent THEN [retry |-> TRUE, silent |-> FALSE, use_shell |-> use_shell]
    ELSE IF use_shell /\ ~shellAvail
    THEN [retry |-> TRUE, silent |-> FALSE, use_shell |-> FALSE]
    ELSE IF ~use_shell /\ shellAvail
    THEN [retry |-> TRUE, silent |-> FALSE, use_shell |-> TRUE]
    ELSE [retry |-> FALSE, silent |-> silent, use_shell |-> use_shell]

\* lines 1096-1111: the except clause flips one flag of the shared options
\* dict and calls print_document_with_options again, or gives up
PDWO_Except ==
    /\ Running("PDWO", "handler")
    /\ LET r == RetryFlags(Top.silent, Top.use_shell)
       IN  stack' = IF r.retry
                    THEN Push([Top EXCEPT !.pc = "rwait", !.sub = "none",
                                          !.silent = r.silent,
                                          !.use_shell = r.use_shell],
                              Frame("PDWO", Top.file, Top.ext, Top.printer, 0,
                                    r.silent, r.use_shell, Top.ultra, Top.opts,
                                    Top.nest + 1))
                    ELSE SetTop(Returns(Top, "false"))
    /\ UNCHANGED <<result, req, defaultPrinter, preDefault, shellAvail, fs,
                   child, credit, applied, spawned, opened, tempsMade,
                   fallback,
                   handleLeft>>
    /\ UNCHANGED otherVars

\* lines 1102, 1106, 1110: "return self.print_document_with_options(...)"
PDWO_RetryRet ==
    /\ Running("PDWO", "rwait")
    /\ Top.sub # "none"
    /\ stack' = SetTop(IF Top.sub = "raised" THEN [Top EXCEPT !.pc = "raise"]
                                             ELSE Returns(Top, Top.sub))
    /\ UNCHANGED <<result, req, defaultPrinter, preDefault, shellAvail, fs,
                   child, credit, applied, spawned, opened, tempsMade,
                   fallback,
                   handleLeft>>
    /\ UNCHANGED otherVars

(* --------------------- scan_document_with_options --------------------- *)
\* line 1589: the accepted output formats
ScanFormats == {"jpg", "jpeg", "png", "pdf", "tiff", "bmp"}
\* the formats callers ask for; "gif" is not accepted and becomes "jpg"
RequestFormats == {"jpg", "png", "pdf", "bmp", "gif"}
\* extensions of a caller-chosen options["output_file"]; "" when not given
CustomExts == {".dat"}
\* device_id None
NoDevice == 0
\* a path is the scan's timestamp and its extension; NoPath stands for None
NoPath == [n |-> 0, ext |-> ""]

NoScanReq == [device_id |-> NoDevice, fmt |-> "", output_file |-> ""]

\* lines 1594-1598: scan_dir/scan_<timestamp>.<output_format>, or the
\* caller's output_file
OutputFile(n, fmt, custom) ==
    [n |-> n, ext |-> IF custom = "" THEN "." \o fmt ELSE custom]

FirstIndex(S) == IF S = {} THEN 0 ELSE CHOOSE i \in S : \A j \in S : i <= j

\* the first enumerated device, whatever its id and type
ResolveFirstDevice(did) == FirstIndex(DOMAIN devices)

\* lines 1603-1618: the device with the given DeviceID, else the first
\* device of type 1 (scanner); 0 when there is none
ResolveDevice(did) ==
    IF did # NoDevice
    THEN FirstIndex({i \in DOMAIN devices : i = did})
    ELSE FirstIndex({i \in DOMAIN devices : devices[i] = 1})

\* the attribute overwritten with whatever the call returns
LastScannedOverwritten(prev, ret) == ret

\* line 1780 is reached only when the call is about to return output_file; a
\* call that returns None leaves self.last_scanned_file as it was
LastScanned(prev, ret) == IF ret = NoPath THEN prev ELSE ret

\* output_file.replace('.pdf', '.jpg')
ReplaceExt(path, from, to) ==
    IF path.ext = from THEN [path EXCEPT !.ext = to] ELSE path

\* lines 1654-1774: from the temporary JPG to the returned file.  convOk: the
\* PDF / PNG conversion worked; copyOk: shutil.copy2 / os.replace worked;
\* unlinkOk: os.unlink of the temporary file worked
Convert(fmt, out0, convOk, copyOk, unlinkOk) ==
    LET kept(path, content) ==
            [ret |-> path, content |-> content, temp |-> ~unlinkOk,
             unlinkFailed |-> ~unlinkOk,
             fallback |-> fmt \in {"pdf", "png"} /\ ~convOk]
        moved(path) ==
            [ret |-> path, content |-> "jpg", temp |-> FALSE,
             unlinkFailed |-> FALSE, fallback |-> TRUE]
        failed ==
            [ret |-> NoPath, content |-> "", temp |-> TRUE,
             unlinkFailed |-> FALSE,
             fallback |-> fmt \in {"pdf", "png"} /\ ~convOk]
    IN  IF fmt = "pdf"
        THEN IF convOk THEN kept(out0, "pdf")
             ELSE IF copyOk THEN moved(ReplaceExt(out0, ".pdf", ".jpg"))
             ELSE failed
        ELSE IF fmt = "jpg"
        THEN IF copyOk THEN kept(out0, "jpg") ELSE failed
        ELSE IF fmt = "png"
        THEN IF convOk THEN kept(out0, "png")
             ELSE IF copyOk THEN kept(ReplaceExt(out0, ".png", ".jpg"), "jpg")
             ELSE failed
        ELSE IF copyOk THEN kept(out0, "jpg") ELSE failed

\* the COM calls of lines 1601-1650 that can raise, in execution order:
\* Dispatch (or the enumeration), Connect, a property assignment of the loop
\* of lines 1628-1644 (a rejected prop.Value), Transfer, saveFile
ScanStages == {"dispatch", "connect", "prop", "transfer", "save", "done"}

\* what can happen to a call that resolved device dev (0: none) and saves as
\* fmt: the stage that raises, and for a call that got its capture whether
\* the conversion, the copy and the unlink it executes work (an operation
\* the path does not execute is left TRUE)
ScanOutcomes(dev, fmt) ==
    LET ok == [stage |-> "done", convOk |-> TRUE, copyOk |-> TRUE,
               unlinkOk |-> TRUE]
    IN  IF dev = 0 THEN {ok, [ok EXCEPT !.stage = "dispatch"]}
        ELSE {[ok EXCEPT !.stage = st] : st \in ScanStages \ {"done"}}
             \cup {o \in [stage : {"done"}, convOk : BOOLEAN, copyOk : BOOLEAN,
                          unlinkOk : BOOLEAN] :
                     /\ fmt \notin {"pdf", "png"} => o.convOk
                     /\ (fmt \in {"pdf", "png"} /\ o.convOk) => o.copyOk
                     /\ ~o.copyOk => o.unlinkOk
                     /\ (fmt = "pdf" /\ ~o.convOk) => o.unlinkOk}

\* lines 1568-1797.  stage names the COM call that raises: Dispatch, Connect,
\* a property assignment, Transfer, saveFile; "done" when none does
ScanDocument ==
    /\ scansLeft > 0
    /\ scansLeft' = scansLeft - 1
    /\ \E did \in 0..(MaxDevices + 1), f \in RequestFormats,
          custom \in CustomExts \cup {""} :
        LET fmt == IF f \in ScanFormats THEN f ELSE "jpg"
            n == scanCalls + 1
            dev == ResolveDevice(did)
        IN  \E o \in ScanOutcomes(dev, fmt) :
            LET got == dev # 0 /\ o.stage = "done"
                c == Convert(fmt, OutputFile(n, fmt, custom), o.convOk,
                             o.copyOk, o.unlinkOk)
            IN  /\ scanCalls' = n
                /\ scanReq' = [device_id |-> did, fmt |-> f,
                               output_file |-> custom]
                /\ transferred' =
                       (dev # 0 /\ o.stage \in {"transfer", "save", "done"})
                /\ connectTo' = IF o.stage = "dispatch" THEN 0 ELSE dev
                /\ scanFailure' = IF o.stage # "done" THEN o.stage
                                  ELSE IF got /\ c.ret = NoPath THEN "copy"
                                  ELSE "none"
                /\ tempWritten' = got
                /\ IF got
                   THEN /\ scanRet' = c.ret
                        /\ scanFiles' =
                               IF c.ret = NoPath THEN {}
                               ELSE {[path |-> c.ret, content |-> c.content]}
                        /\ tempExists' = c.temp
                        /\ unlinkFailed' = c.unlinkFailed
                        /\ convFallback' = c.fallback
                        /\ last_scanned_file' =
                               LastScanned(last_scanned_file, c.ret)
                   ELSE /\ scanRet' = NoPath
                        /\ scanFiles' = {}
                        /\ tempExists' = FALSE
                        /\ unlinkFailed' = FALSE
                        /\ convFallback' = FALSE
                        /\ UNCHANGED last_scanned_file
    /\ UNCHANGED <<devices, dmVars, printVars, combVars, invVars, sumVars, aiVars>>

(* ------------------------ combine_scans_to_pdf ------------------------ *)
\* a path of file_paths names no file ("missing"), a file Image.open cannot
\* read ("corrupt"), or an image ("img")
InputKinds == {"missing", "corrupt", "img"}

InputLists == UNION {[1..n -> InputKinds] : n \in 0..MaxInputs}

NoPdf == [exists |-> FALSE, pages |-> <<>>]

\* the positions of the inputs of the given kinds, in input order
RECURSIVE Positions(_, _, _)
Positions(ins, kinds, i) ==
    IF i > Len(ins) THEN <<>>
    ELSE IF ins[i] \in kinds THEN <<i>> \o Positions(ins, kinds, i + 1)
    ELSE Positions(ins, kinds, i + 1)

\* lines 1126-1134: the loop over file_paths; Image.open on a file that is
\* no image raises, and the except clause of line 1151 ends the call
LoopRaises(ins) == \E i \in 1..Len(ins) : ins[i] = "corrupt"

\* lines 1113-1153; output_pdf keeps its content when the call writes nothing
CombineScans ==
    /\ combCalls < MaxCombines
    /\ combCalls' = combCalls + 1
    /\ \E ins \in InputLists, saveOk \in BOOLEAN :
        LET images == Positions(ins, {"img"}, 1)
            saved == ~LoopRaises(ins) /\ images # <<>> /\ saveOk
        IN  /\ (LoopRaises(ins) \/ images = <<>>) => saveOk
            /\ combIn' = ins
            /\ combRet' = BoolStr(saved)
            /\ combWrote' = saved
            /\ combSaveFailed' = (~LoopRaises(ins) /\ images # <<>> /\ ~saveOk)
            /\ outPdf' = IF saved THEN [exists |-> TRUE, pages |-> images]
                         ELSE outPdf
    /\ UNCHANGED <<dmVars, printVars, scanVars, invVars, sumVars, aiVars>>

(* --------------------------- device inventory -------------------------- *)
\* lines 1330, 1337: the printer print_with_sumatra prefers
PreferredPrinter == "HP67F044"

PrinterNames == Printers \cup {PreferredPrinter}

\* the lists EnumPrinters can return: installed printers, each listed once
InstalledLists ==
    {s \in UNION {[1..n -> PrinterNames] : n \in 0..MaxPrinters} :
        \A i \in DOMAIN s : \A j \in DOMAIN s : i # j => s[i] # s[j]}

NoFail == [kind |-> "none", at |-> 0]

\* a failed query discards what was enumerated before it
ScannersBeforeDiscarded(devs, stop) ==
    IF stop <= Len(devs) THEN <<>> ELSE Positions(devs, {1}, 1)

\* lines 89-105: the loop appends the devices of Type 1 one by one; a query
\* that raises at index stop ends the loop, and "return scanners" (line 109)
\* returns the entries appended so far
ScannersBefore(devs, stop) == Positions(SubSeq(devs, 1, stop - 1), {1}, 1)

\* lines 92-105: one appended tuple; the description and the id fall back to
\* generated names when their query raises
ScannerEntry(i, descOk, idOk) ==
    [index |-> i,
     description |-> IF i \in descOk THEN "Description" ELSE "Scanner <i>",
     device_id |-> IF i \in idOk THEN "DeviceID" ELSE "scanner_<i>"]

\* lines 80-110.  stop names the index whose DeviceInfos(i) / Type query
\* raises: 0 when Dispatch or DeviceInfos.Count raises, Len + 1 when none does
GetScannerDevices ==
    /\ \E stop \in 0..(Len(devices) + 1) :
        LET found == ScannersBefore(devices, stop)
            listed == {found[j] : j \in DOMAIN found}
        IN  \E descOk \in SUBSET listed, idOk \in SUBSET listed :
            /\ invOp' = "scanners"
            /\ invRet' = [j \in 1..Len(found) |->
                              ScannerEntry(found[j], descOk, idOk)]
            /\ invFail' = IF stop = 0 THEN [kind |-> "service", at |-> 0]
                          ELSE IF stop <= Len(devices)
                          THEN [kind |-> "query", at |-> stop]
                          ELSE NoFail
    /\ UNCHANGED <<installed, invHandles>>
    /\ UNCHANGED <<dmVars, printVars, scanVars, combVars, sumVars, aiVars>>

\* lines 261-266: OpenPrinter raises, GetPrinter raises, or both work
DetailOutcomes == {"ok", "openfail", "getfail"}

\* lines 245-280.  EnumPrinters or GetDefaultPrinter raising leaves the list
\* empty; a printer whose detail query raises is listed with blank details,
\* and when it was GetPrinter that raised, ClosePrinter (line 264) is skipped
PrinterDetails(list, def, enumOk, o) ==
    IF ~enumOk
    THEN [ret |-> <<>>, fail |-> [kind |-> "service", at |-> 0], leaked |-> {}]
    ELSE IF def = NoDefault
    THEN [ret |-> <<>>, fail |-> [kind |-> "default", at |-> 0], leaked |-> {}]
    ELSE [ret |-> [i \in 1..Len(list) |->
                      [index |-> i, name |-> list[i],
                       is_default |-> list[i] = def,
                       detailed |-> o[i] = "ok"]],
          fail |-> IF \E i \in 1..Len(list) : o[i] # "ok"
                   THEN [kind |-> "query",
                         at |-> FirstIndex({i \in 1..Len(list) : o[i] # "ok"})]
                   ELSE NoFail,
          leaked |-> {list[i] : i \in {k \in 1..Len(list) : o[k] = "getfail"}}]

\* a call of get_printer_details
GetPrinterDetails ==
    /\ \E enumOk \in BOOLEAN, o \in [1..Len(installed) -> DetailOutcomes] :
        LET d == PrinterDetails(installed, defaultPrinter, enumOk, o)
        IN  /\ invOp' = "printers"
            /\ invRet' = d.ret
            /\ invFail' = d.fail
            /\ invHandles' = invHandles \cup d.leaked
    /\ UNCHANGED installed
    /\ UNCHANGED <<dmVars, printVars, scanVars, combVars, sumVars, aiVars>>

(* --------------------------- print_with_sumatra ------------------------ *)
\* line 1325: the file types handed to the viewer
SumatraExts == {".pdf", ".xps", ".epub", ".mobi", ".cbz", ".cbr", ".djvu"}
\* extensions of the files handed to print_with_sumatra
SumatraInputExts == {".pdf", ".xps", ".txt"}
\* no command-line run has ended
NoExit == -1

NoSumReq == [exists |-> FALSE, ext |-> "", printer |-> None]

\* lines 1329-1346: the printer named after -print-to.  The preferred printer
\* replaces every other printer_name when get_printer_details lists it; the
\* default printer is asked for only when printer_name is None, and NoDefault
\* stands for GetDefaultPrinter raising
ChoosePrinter(printer, details, def) ==
    IF printer = None \/ printer # PreferredPrinter
    THEN IF \E i \in DOMAIN details : details[i].name = PreferredPrinter
         THEN PreferredPrinter
         ELSE IF printer = None THEN def ELSE printer
    ELSE printer

\* lines 1316-1442.  located: a SumatraPDF.exe was found on the probed paths
\* ("found"), on none ("absent"), or building the path list raised ("error");
\* run: subprocess.run(check=True) returned; answer: the reply to the download
\* prompt ("eof" when input() raises); dl: download_sumatra_pdf gave a path.
\* Without a binary and without a download the try block ends with no return
\* statement, so the call returns None
Sumatra(exists, ext, printer, details, def, located, run, answer, dl) ==
    LET target == ChoosePrinter(printer, details, def)
        sent == [rv |-> BoolStr(run), target |-> target, ran |-> run]
        nojob(v) == [rv |-> v, target |-> None, ran |-> FALSE]
    IN  IF ~exists THEN nojob("false")
        ELSE IF ext \notin SumatraExts THEN nojob("false")
        ELSE IF target = NoDefault THEN nojob("raised")
        ELSE IF located = "error" THEN nojob("false")
        ELSE IF located = "found" THEN sent
        ELSE IF answer = "eof" THEN nojob("false")
        ELSE IF answer = "y" /\ dl THEN sent
        ELSE nojob(None)

\* lines 1330-1332: get_printer_details is called unless the caller named the
\* preferred printer
QueriesPrinters(exists, ext, printer) ==
    exists /\ ext \in SumatraExts /\ (printer = None \/ printer # PreferredPrinter)

\* what get_printer_details meets when print_with_sumatra calls it:
\* EnumPrinters raises, every detail query works, or GetPrinter raises for
\* the first printer listed
QueryOutcomes ==
    {[enumOk |-> FALSE, o |-> [i \in DOMAIN installed |-> "ok"]],
     [enumOk |-> TRUE, o |-> [i \in DOMAIN installed |-> "ok"]],
     [enumOk |-> TRUE,
      o |-> [i \in DOMAIN installed |-> IF i = 1 THEN "getfail" ELSE "ok"]]}

\* what locating and running the viewer meets; a choice the code does not
\* read on a path is held at one value
ViewerOutcomes ==
    {[located |-> "found", run |-> r, answer |-> "n", dl |-> FALSE] :
        r \in BOOLEAN}
    \cup {[located |-> "error", run |-> FALSE, answer |-> "n", dl |-> FALSE]}
    \cup {[located |-> "absent", run |-> FALSE, answer |-> a, dl |-> FALSE] :
              a \in {"y", "n", "eof"}}
    \cup {[located |-> "absent", run |-> r, answer |-> "y", dl |-> TRUE] :
              r \in BOOLEAN}

\* a caller invokes print_with_sumatra(file_path, printer_name)
CallPrintWithSumatra ==
    /\ exitCode = NoExit
    /\ \E ext \in SumatraInputExts, p \in {None, "P1", PreferredPrinter},
          q \in QueryOutcomes, v \in ViewerOutcomes :
        LET queried == QueriesPrinters(Exists("input"), ext, p)
            d == PrinterDetails(installed, defaultPrinter, q.enumOk, q.o)
            r == Sumatra(Exists("input"), ext, p,
                         IF queried THEN d.ret ELSE <<>>, defaultPrinter,
                         v.located, v.run, v.answer, v.dl)
        IN  /\ sumReq' = [exists |-> Exists("input"), ext |-> ext, printer |-> p]
            /\ sumRet' = r.rv
            /\ sumTarget' = r.target
            /\ sumRan' = r.ran
            /\ invHandles' = IF queried THEN invHandles \cup d.leaked
                             ELSE invHandles
    /\ UNCHANGED <<argv, exitCode, inMenu>>
    /\ UNCHANGED <<installed, invOp, invRet, invFail>>
    /\ UNCHANGED <<dmVars, printVars, scanVars, combVars, aiVars>>

\* sys.argv[1:] of a run: nothing, the command without a file, the command
\* with a file, something else
ArgLists == {<<>>, <<"print_with_sumatra">>, <<"print_with_sumatra", "input">>,
             <<"help">>}

\* "if success:" read as "success is not False"
TruthyUnlessFalse(v) == v # "false"

\* line 2384, "if success:": None is as false as False
Truthy(v) == v = "true"

\* lines 2372-2398: the script's entry point.  An exception leaving
\* print_with_sumatra ends the interpreter with status 1; main() is the
\* interactive menu
Main ==
    /\ exitCode = NoExit
    /\ \E a \in ArgLists, ext \in SumatraInputExts,
          q \in QueryOutcomes, v \in ViewerOutcomes :
        LET withFile == Len(a) > 1 /\ a[1] = "print_with_sumatra"
            queried == withFile /\ QueriesPrinters(Exists("input"), ext, None)
            d == PrinterDetails(installed, defaultPrinter, q.enumOk, q.o)
            r == Sumatra(Exists("input"), ext, None,
                         IF queried THEN d.ret ELSE <<>>, defaultPrinter,
                         v.located, v.run, v.answer, v.dl)
        IN  /\ argv' = a
            /\ IF withFile /\ Exists("input")
               THEN /\ sumReq' = [exists |-> TRUE, ext |-> ext, printer |-> None]
                    /\ sumRet' = r.rv
                    /\ sumTarget' = r.target
                    /\ sumRan' = r.ran
                    /\ invHandles' = IF queried THEN invHandles \cup d.leaked
                                     ELSE invHandles
                    /\ exitCode' = IF r.rv = "raised" THEN 1
                                   ELSE IF Truthy(r.rv) THEN 0 ELSE 1
                    /\ inMenu' = FALSE
               ELSE /\ exitCode' = IF withFile THEN 1 ELSE 0
                    /\ inMenu' = ~withFile
                    /\ UNCHANGED <<sumReq, sumRet, sumTarget, sumRan, invHandles>>
    /\ UNCHANGED <<installed, invOp, invRet, invFail>>
    /\ UNCHANGED <<dmVars, printVars, scanVars, combVars, aiVars>>

(* ------------------------ extract_text_from_image ---------------------- *)
\* an image path is its base name and its extension; NoImage stands for None
NoImage == [base |-> "", ext |-> ""]

NoAiReq == [image |-> NoImage, get_modified_image |-> FALSE]

NoAiRet == [text |-> None, path |-> NoImage]

\* the image paths handed to extract_text_from_image
ImagePaths == {[base |-> "scan", ext |-> ".png"], [base |-> "scan", ext |-> ".jpg"],
               [base |-> "page.1", ext |-> ".tiff"]}

\* lines 1851-1852: base_name + "_modified" + ext
ModifiedPath(image) == [base |-> image.base \o "_modified", ext |-> image.ext]

\* lines 57-78, __init__.  key: GOOGLE_API_KEY is set; without it the
\* placeholder constant is used (lines 67-70).  configured: genai.configure
\* and GenerativeModel returned, which does not depend on the key
Construct ==
    /\ ~constructed
    /\ constructed' = TRUE
    /\ \E key \in BOOLEAN, configured \in BOOLEAN :
        /\ apiKeySet' = key
        /\ GEMINI_AVAILABLE' = configured
    /\ UNCHANGED <<aiCalls, aiReq, aiRet, aiContacted, aiProvided, aiSaved>>
    /\ UNCHANGED <<dmVars, printVars, scanVars, combVars, invVars, sumVars>>

\* lines 1807-1866.  r: Image.open raises ("openfail"), generate_content or
\* response.text raises ("svcfail"), the response has no text ("notext") or
\* has text ("text"); hasImage: hasattr(response, 'image'); saveOk:
\* response.image.save returned.  The placeholder key is no valid key, so
\* with it the service call raises
ExtractText ==
    /\ constructed
    /\ aiCalls < MaxExtracts
    /\ aiCalls' = aiCalls + 1
    /\ \E image \in ImagePaths, want \in BOOLEAN,
          r \in {"openfail", "svcfail", "notext", "text"},
          hasImage \in BOOLEAN, saveOk \in BOOLEAN :
        LET saving == want /\ hasImage
        IN  /\ ~apiKeySet => r \in {"openfail", "svcfail"}
            /\ aiReq' = [image |-> image, get_modified_image |-> want]
            /\ IF ~GEMINI_AVAILABLE
               THEN /\ aiRet' = NoAiRet
                    /\ aiContacted' = FALSE
                    /\ aiProvided' = FALSE
                    /\ aiSaved' = {}
               ELSE /\ aiContacted' = (r # "openfail")
                    /\ aiProvided' = (r \in {"notext", "text"} /\ hasImage)
                    /\ IF r = "text"
                       THEN /\ aiRet' = [text |-> "text",
                                         path |-> IF saving THEN ModifiedPath(image)
                                                  ELSE NoImage]
                            /\ aiSaved' = IF saving /\ saveOk
                                          THEN {ModifiedPath(image)} ELSE {}
                       ELSE /\ aiRet' = NoAiRet
                            /\ aiSaved' = {}
    /\ UNCHANGED <<constructed, apiKeySet, GEMINI_AVAILABLE>>
    /\ UNCHANGED <<dmVars, printVars, scanVars, combVars, invVars, sumVars>>

(* ------------------ DEVMODE options of the direct print API ------------ *)
\* the values a DEVMODE field read from the device holds
DeviceValues == {1, 2}
\* the values a request gives an option
RequestValues == {2, 3}

\* options: the print option keys a request carries, with their values
RequestOptions == UNION {[keys -> RequestValues] : keys \in SUBSET OptionNames}

\* every setting whose option is absent set to 1
DevModeReset(dev, options) ==
    [k \in OptionNames |-> IF k \in DOMAIN options THEN options[k] ELSE 1]

\* lines 1053-1067: dev_mode is what GetPrinter returned; each
\* 'if "<key>" in options: dev_mode.<Field> = options["<key>"]' overwrites one
\* field, and only when win32ui was imported
DevMode(dev, options) ==
    [k \in OptionNames |->
        IF k \in DevModeOptions(DOMAIN options) THEN options[k] ELSE dev[k]]

\* lines 1052-1070: the option assignments of Method 3 and SetPrinter
SetDevMode ==
    /\ ~dmDone
    /\ dmDone' = TRUE
    /\ \E options \in RequestOptions :
        /\ dmOptions' = options
        /\ dmSet' = DevMode(dmDevice, options)
    /\ UNCHANGED dmDevice
    /\ UNCHANGED <<printVars, scanVars, combVars, invVars, sumVars, aiVars>>

(* --------------------------- specification ---------------------------- *)
PrintIdle ==
    /\ stack = <<>>
    /\ result = "idle"
    /\ req = NoReq
    /\ defaultPrinter = "P1"
    /\ preDefault = defaultPrinter
    /\ shellAvail = TRUE
    /\ fs = {}
    /\ child = "none"
    /\ credit = "none"
    /\ applied = {}
    /\ spawned = FALSE
    /\ opened = FALSE
    /\ tempsMade = FALSE
    /\ fallback = FALSE
    /\ handleLeft = FALSE

\* a client scans once with any inventory, or up to MaxScans times with an
\* inventory of at most one device
ScanInit ==
    /\ devices \in UNION {[1..n -> {1, 2}] : n \in 0..MaxDevices}
    /\ scansLeft \in {1, MaxScans}
    /\ Len(devices) > 1 => scansLeft = 1
    /\ scanCalls = 0
    /\ scanReq = NoScanReq
    /\ scanRet = NoPath
    /\ scanFiles = {}
    /\ last_scanned_file = NoPath
    /\ tempExists = FALSE
    /\ tempWritten = FALSE
    /\ unlinkFailed = FALSE
    /\ convFallback = FALSE
    /\ transferred = FALSE
    /\ connectTo = 0
    /\ scanFailure = "none"

ScanIdle ==
    /\ devices = <<>>
    /\ scansLeft = 0
    /\ scanCalls = 0
    /\ scanReq = NoScanReq
    /\ scanRet = NoPath
    /\ scanFiles = {}
    /\ last_scanned_file = NoPath
    /\ tempExists = FALSE
    /\ tempWritten = FALSE
    /\ unlinkFailed = FALSE
    /\ convFallback = FALSE
    /\ transferred = FALSE
    /\ connectTo = 0
    /\ scanFailure = "none"

CombineInit ==
    /\ combCalls = 0
    /\ combIn = <<>>
    /\ combRet = "none"
    /\ combWrote = FALSE
    /\ combSaveFailed = FALSE
    /\ outPdf = NoPdf

InvInit ==
    /\ installed \in InstalledLists
    /\ invOp = "none"
    /\ invRet = <<>>
    /\ invFail = NoFail
    /\ invHandles = {}

InvIdle ==
    /\ installed = <<>>
    /\ invOp = "none"
    /\ invRet = <<>>
    /\ invFail = NoFail
    /\ invHandles = {}

SumIdle ==
    /\ argv = <<>>
    /\ exitCode = NoExit
    /\ inMenu = FALSE
    /\ sumReq = NoSumReq
    /\ sumRet = "idle"
    /\ sumTarget = None
    /\ sumRan = FALSE

AiIdle ==
    /\ constructed = FALSE
    /\ apiKeySet = FALSE
    /\ GEMINI_AVAILABLE = FALSE
    /\ aiCalls = 0
    /\ aiReq = NoAiReq
    /\ aiRet = NoAiRet
    /\ aiContacted = FALSE
    /\ aiProvided = FALSE
    /\ aiSaved = {}

DmInit ==
    /\ dmDevice \in [OptionNames -> DeviceValues]
    /\ dmOptions = <<>>
    /\ dmSet = dmDevice
    /\ dmDone = FALSE

DmIdle ==
    /\ dmDevice = [k \in OptionNames |-> 1]
    /\ dmOptions = <<>>
    /\ dmSet = dmDevice
    /\ dmDone = FALSE

Init ==
    PrintInit /\ ScanIdle /\ CombineInit /\ InvIdle /\ SumIdle /\ AiIdle /\ DmIdle

Next ==
    \/ CallPrintDirect
    \/ CallPrintOptions
    \/ PDND_Entry
    \/ PDND_ImageDirect
    \/ PDND_GhostScript
    \/ PDND_TextRaw
    \/ PDND_Sumatra
    \/ PDND_Adobe
    \/ PDND_PowerShell
    \/ PDND_ShellExecute
    \/ PDND_ImageToPdf
    \/ PDND_ImageToPdfRet
    \/ PDND_ImageRaw
    \/ PDND_PdfToImages
    \/ PDND_PageLoop
    \/ PDND_PageRet
    \/ PDND_Chrome
    \/ PDND_VBScript
    \/ PDND_Fallback
    \/ PDND_FallbackRet
    \/ Return
    \/ PDWO_Entry
    \/ PDWO_UltraRet
    \/ PDWO_Silent
    \/ ChildExit
    \/ PDWO_Shell
    \/ PDWO_Direct
    \/ PDWO_Except
    \/ PDWO_RetryRet

Spec == Init /\ [][Next]_vars

\* the scanner alone
InitScan ==
    PrintIdle /\ ScanInit /\ CombineInit /\ InvIdle /\ SumIdle /\ AiIdle /\ DmIdle

NextScan == ScanDocument

SpecScan == InitScan /\ [][NextScan]_vars

\* combine_scans_to_pdf alone
InitCombine ==
    PrintIdle /\ ScanIdle /\ CombineInit /\ InvIdle /\ SumIdle /\ AiIdle /\ DmIdle

NextCombine == CombineScans

SpecCombine == InitCombine /\ [][NextCombine]_vars

\* the device inventory alone: the default printer is an installed one, or
\* there is none.  The two operations share no state, so the scanners and
\* the printers are enumerated on machines that have the one kind or the other
InitInventory ==
    /\ InvInit
    /\ PrintInit
    /\ shellAvail
    /\ fs = {}
    /\ defaultPrinter = NoDefault \/ \E i \in DOMAIN installed : installed[i] = defaultPrinter
    /\ ScanInit
    /\ devices = <<>> \/ installed = <<>>
    /\ CombineInit
    /\ SumIdle
    /\ AiIdle
    /\ DmIdle

NextInventory ==
    \/ GetScannerDevices
    \/ GetPrinterDetails

SpecInventory == InitInventory /\ [][NextInventory]_vars

\* print_with_sumatra and the command-line entry point; the file named on
\* the command line exists or not
InitSumatra ==
    /\ InvInit
    /\ PrintInit
    /\ shellAvail
    /\ defaultPrinter = NoDefault \/ \E i \in DOMAIN installed : installed[i] = defaultPrinter
    /\ ScanIdle
    /\ CombineInit
    /\ SumIdle
    /\ AiIdle
    /\ DmIdle

NextSumatra ==
    \/ CallPrintWithSumatra
    \/ Main

SpecSumatra == InitSumatra /\ [][NextSumatra]_vars

\* the text extraction adapter, from construction on
InitExtract ==
    PrintIdle /\ ScanIdle /\ CombineInit /\ InvIdle /\ SumIdle /\ AiIdle /\ DmIdle

NextExtract ==
    \/ Construct
    \/ ExtractText

SpecExtract == InitExtract /\ [][NextExtract]_vars

\* the option assignments of the direct print API path, with and without
\* win32ui
InitDevMode ==
    /\ PrintInit
    /\ defaultPrinter = "P1"
    /\ fs = {}
    /\ ScanIdle
    /\ CombineInit
    /\ InvIdle
    /\ SumIdle
    /\ AiIdle
    /\ DmInit

NextDevMode == SetDevMode

SpecDevMode == InitDevMode /\ [][NextDevMode]_vars

(* ------------------- properties of the print resolver ------------------ *)
Finished == result \in {"true", "false", "raised"}

\* the strategies of one call ran in ascending priority, none after a success
ChainOrdered(t) ==
    \A i \in 1..Len(t) : \A j \in 1..Len(t) :
        i < j => t[i].s < t[j].s /\ ~t[i].ok

HasSuccess(t) == \E i \in 1..Len(t) : t[i].ok

Ran(t, s) == \E i \in 1..Len(t) : t[i].s = s

RanAndFailed(t, s) == \E i \in 1..Len(t) : t[i].s = s /\ ~t[i].ok

\* C1: every call of print_direct_no_dialog executes its strategies in the one
\* priority order 1..12 (image print, rasterizer, raw text, viewer, reader,
\* scripted print, shell verb, image-to-PDF, raw image, per-page print,
\* browser, scripted ShellExecute); once a strategy succeeds the call returns
\* True and executes no later strategy
C1_PriorityOrder ==
    /\ \A k \in 1..Len(stack) :
          stack[k].fn = "PDND" =>
              /\ ChainOrdered(stack[k].tried)
              /\ HasSuccess(stack[k].tried) =>
                     stack[k].pc = "ret" /\ stack[k].rv = "true"
    /\ ChainOrdered(lastDone.tried)
    /\ HasSuccess(lastDone.tried) => lastDone.rv = "true"

\* a call returned True from a strategy after two earlier ones had failed
C1_Witness ==
    /\ lastDone.rv = "true"
    /\ Len(lastDone.tried) >= 3
    /\ lastDone.tried[Len(lastDone.tried)].ok

C3_DefaultPrinterRestored ==
    Finished => defaultPrinter = preDefault

\* C4: for every file extension, a chain in which every strategy was skipped
\* or failed attempts print_document_with_options with ultra_silent off
\* before it reports failure
C4_FallbackForEveryExtension ==
    (req.entry = "PDND" /\ req.depth = 0 /\ req.exists /\ result = "false")
        => fallback

\* C5: printing a path that does not exist fails without attempting any
\* strategy: no process is spawned, no printer handle is opened, no temporary
\* file is created and the default printer is not changed
C5_MissingFileNoEffect ==
    (req.entry # "none" /\ ~req.exists) =>
        /\ result \in {"pending", "false"}
        /\ ~spawned
        /\ ~opened
        /\ ~tempsMade
        /\ fs = {}
        /\ defaultPrinter = preDefault

\* both entry points have returned False for a missing path
C5_Witness ==
    /\ ~req.exists
    /\ req.entry \in {"PDND", "PDWO"}
    /\ result = "false"

\* C6: a print call returns True only when the strategy it credits was seen
\* to complete successfully (exit code zero, or the OS call reported success);
\* never while the launched script host's outcome is still unknown
C6_TrueOnlyWhenObserved ==
    result = "true" =>
        \/ credit \in {"exit0", "oscall"}
        \/ credit = "launched" /\ child = "exit0"

\* C7: both print entry points return a boolean for every input and every
\* combination of failures; neither propagates an exception
C7_NeverRaises ==
    result # "raised"

\* C8: print_document_with_options called with its default silent,
\* ultra_silent and use_shell flags applies the request's copies, orientation,
\* duplex and paper-size options in the strategy that prints the document
C8_OptionsApplied ==
    (result = "true" /\ req.entry = "PDWO" /\ req.silent /\ req.use_shell
        /\ req.ultra)
        => (req.opts \cap {"copies", "orientation", "duplex", "paper_size"})
               \subseteq applied

(* ----------------------- properties of the scanner --------------------- *)
\* C9: for each supported output format (jpg, png, pdf, tiff, bmp) a
\* successful scan_document_with_options returns a file whose content format
\* and whose extension both are the requested format (stated for the calls
\* that name no output_file of their own and did not fall back to the raw JPG)
C9_FormatMatchesRequest ==
    (scanRet # NoPath /\ scanReq.output_file = "" /\ ~convFallback
        /\ scanReq.fmt \in {"jpg", "png", "pdf", "tiff", "bmp"})
        => /\ scanRet.ext = "." \o scanReq.fmt
           /\ \A file \in scanFiles :
                 file.path = scanRet => file.content = scanReq.fmt

(* -------------------- properties of combine_scans_to_pdf --------------- *)
\* C10: combine_scans_to_pdf writes a document with exactly one page per
\* readable input, in input order, and returns True; with no usable input it
\* returns False and does not write the output file
C10_OnePagePerReadableInput ==
    (combRet # "none" /\ ~combSaveFailed) =>
        LET readable == Positions(combIn, {"img"}, 1)
        IN  IF readable # <<>>
            THEN /\ combRet = "true"
                 /\ combWrote
                 /\ outPdf = [exists |-> TRUE, pages |-> readable]
            ELSE /\ combRet = "false"
                 /\ ~combWrote

(* --------------------- properties of the inventory --------------------- *)
\* C11 (as stated): get_scanner_devices and get_printer_details never raise,
\* and whenever their enumeration fails at any point (service unavailable, a
\* device query failing mid-enumeration, no default printer) the list they
\* return is empty
C11_EmptyOnAnyFailure ==
    (invOp # "none" /\ invFail.kind # "none") => invRet = <<>>

\* C11 (amended): get_scanner_devices and get_printer_details always return a
\* list.  It is empty when the enumeration fails before the first device
\* (service unavailable, no default printer).  A scanner query failing
\* mid-enumeration ends get_scanner_devices with exactly the scanners that
\* precede the failing device, in order; a printer's detail query failing
\* leaves get_printer_details listing every installed printer
C11_ListsWhatWasEnumerated ==
    /\ invOp = "scanners" =>
          /\ {invRet[j].index : j \in DOMAIN invRet} =
                 {i \in DOMAIN devices :
                     /\ devices[i] = 1
                     /\ invFail.kind # "service"
                     /\ invFail.kind = "query" => i < invFail.at}
          /\ \A j \in DOMAIN invRet : \A k \in DOMAIN invRet :
                 j < k => invRet[j].index < invRet[k].index
    /\ invOp = "printers" =>
          IF invFail.kind \in {"service", "default"}
          THEN invRet = <<>>
          ELSE /\ Len(invRet) = Len(installed)
               /\ \A i \in DOMAIN invRet : invRet[i].name = installed[i]

\* a query failed on the second device and the scanner before it was returned
C11_Witness ==
    /\ invOp = "scanners"
    /\ invFail.kind = "query"
    /\ invFail.at > 1
    /\ invRet # <<>>

(* ------------------- properties of print_with_sumatra ------------------ *)
\* C12: the command-line mode "print_with_sumatra <file>" exits with status 0
\* exactly when the viewer printed the file and with status 1 when the print
\* failed or the file does not exist; it never enters the interactive menu
C12_ExitCodeReflectsPrint ==
    (exitCode # NoExit /\ Len(argv) > 1 /\ argv[1] = "print_with_sumatra") =>
        /\ ~inMenu
        /\ exitCode \in {0, 1}
        /\ exitCode = 0 <=> (Exists("input") /\ sumRan)
        /\ ~Exists("input") => exitCode = 1

\* the run ended with status 1 after print_with_sumatra returned None: no
\* viewer binary was found and none was downloaded
C12_Witness ==
    /\ argv = <<"print_with_sumatra", "input">>
    /\ exitCode = 1
    /\ sumRet = None

\* C13: print_with_sumatra sends the job to the printer its caller named;
\* another printer (the preferred or the default one) is chosen only when
\* printer_name is None
C13_NamedPrinterUsed ==
    (sumReq.printer # None /\ sumTarget # None) => sumTarget = sumReq.printer

\* C14: print_with_sumatra returns a boolean on every path: True if the
\* viewer process ran successfully and False in every other case, also when
\* no viewer binary is found and the download is declined or fails (stated
\* for a system that has a default printer)
C14_ReturnsBoolean ==
    (sumRet # "idle" /\ defaultPrinter # NoDefault) => sumRet = BoolStr(sumRan)

(* ---------------- properties of extract_text_from_image ---------------- *)
\* C15: when the AI service credential is unavailable at construction,
\* GEMINI_AVAILABLE is off from startup on and no extract_text_from_image
\* call contacts the service
C15_NoCredentialDisables ==
    (constructed /\ ~apiKeySet) => (~GEMINI_AVAILABLE /\ ~aiContacted)

\* C16: extract_text_from_image returns a modified image path other than
\* None only if a modified image was requested, the service provided one and
\* it was saved at <base>_modified<ext>; when the save fails or no image is
\* provided the returned path is None
C16_PathOnlyWhenSaved ==
    aiRet.path # NoImage =>
        /\ aiReq.get_modified_image
        /\ aiProvided
        /\ aiRet.path = ModifiedPath(aiReq.image)
        /\ aiRet.path \in aiSaved

(* ------------- resources held by the print resolver and the scan ------- *)
\* C17: recursion in print_direct_no_dialog is bounded: the two conversion
\* strategies (7, image to PDF, and 9, PDF to page images) are attempted at
\* depth 0 only, a chain entered at depth 1 or more never calls the resolver
\* again, and no call made by a strategy has a depth above 2, also when every
\* conversion succeeds and every print attempt fails
C17_RecursionBounded ==
    /\ \A k \in 1..Len(stack) :
          stack[k].fn = "PDND" =>
              /\ stack[k].pc \in {"S8wait", "S10loop", "S10wait"}
                     => stack[k].depth = 0
              /\ stack[k].depth >= 1 => k = Len(stack)
              /\ stack[k].depth > 2 =>
                     /\ k = 1
                     /\ stack[k].depth = req.depth
                     /\ stack[k].tried = <<>>
    /\ lastDone.depth >= 1 =>
          /\ ~Ran(lastDone.tried, 8)
          /\ ~Ran(lastDone.tried, 10)
    /\ lastDone.depth > 2 => lastDone.tried = <<>>

\* a chain entered at depth 1 by a conversion strategy ran to its last
\* strategy with every print attempt failing, and returned False
C17_Witness ==
    /\ req.depth = 0
    /\ lastDone.depth = 1
    /\ lastDone.rv = "false"
    /\ RanAndFailed(lastDone.tried, 12)

\* C18: every printer handle a print operation opened is closed on every
\* exit path of the operation, also when a call made between the open and
\* the close raises
C18_HandlesClosed ==
    Finished => ~handleLeft

\* the temporary files and the directory the strategies of
\* print_direct_no_dialog create
StrategyTemps == {"tmp_ps1", "tmp_vbs", "tmp_pdf", "tmp_page", "tmp_dir"}

\* C19: every temporary artifact a print strategy created (PowerShell script,
\* VBScript file, image-to-PDF file, page images and their directory) has had
\* its deletion attempted when the strategy is left, so none is left behind
\* by a finished call, whether its strategies succeeded or failed
C19_TempsDeleted ==
    Finished => fs \cap StrategyTemps = {}

\* C20: once scan_document_with_options has written its intermediate temp
\* file, the file is gone when the call returns, on every exit path (good
\* conversion, conversion fallback, failed copy with None returned), unless
\* deleting it was tried and failed
C20_TempFileRemoved ==
    (tempWritten /\ tempExists) => unlinkFailed

(* ---------------------- external tools and options -------------------- *)
\* C21: every external tool print_direct_no_dialog spawns is waited on with a
\* timeout, so no call stays blocked on a tool that never exits: the strategy
\* fails and the chain goes on
C21_NoToolBlocks ==
    \A k \in 1..Len(stack) : stack[k].pc # "hung"

\* C22: on the direct print API path only the options present in the request
\* among copies, orientation, duplex, paper_size and quality are written into
\* the DEVMODE; every setting whose option is absent keeps the value read
\* from the device
C22_OnlyPresentOptionsWritten ==
    dmDone =>
        \A k \in OptionNames :
            /\ k \notin DOMAIN dmOptions => dmSet[k] = dmDevice[k]
            /\ dmSet[k] # dmDevice[k] =>
                   k \in DOMAIN dmOptions /\ dmSet[k] = dmOptions[k]

\* a request with some of the options, not all, changed exactly a setting it
\* names and left one it does not name at a device value other than 1
C22_Witness ==
    /\ dmDone
    /\ \E k \in DOMAIN dmOptions : dmSet[k] # dmDevice[k]
    /\ \E k \in OptionNames \ DOMAIN dmOptions : dmSet[k] = 2

\* C27: print_document_with_options ends for every combination of its flags,
\* of ShellExecute availability and of method failures: a retry call has
\* silent off, the second retry has use_shell settled at what ShellExecute's
\* availability asks for, so no call is nested deeper than the third, and the
\* call stack of the resolver stays bounded
C27_RetriesBounded ==
    /\ \A k \in 1..Len(stack) :
          stack[k].fn = "PDWO" =>
              /\ stack[k].nest <= 2
              /\ stack[k].nest >= 1 => ~stack[k].silent
              /\ stack[k].nest = 2 => stack[k].use_shell = shellAvail
    /\ Len(stack) <= 5

\* the third nested call gave up and returned False
C27_Witness ==
    /\ stack # <<>>
    /\ Top.fn = "PDWO"
    /\ Top.nest = 2
    /\ Top.pc = "ret"
    /\ Top.rv = "false"

C30_EveryPageAttempted ==
    [][(/\ stack # <<>>
        /\ Top.fn = "PDND"
        /\ Top.pc \in {"S10loop", "S10wait"}
        /\ Len(stack') = Len(stack)
        /\ stack'[Len(stack')].pc \notin {"S10loop", "S10wait"})
       => /\ Top.page >= 1 => Top.page = Top.npages
          /\ stack'[Len(stack')].pc = "ret" <=> Top.success]_vars

(* ----------------------- unusable inputs and scans --------------------- *)
\* C24: combine_scans_to_pdf skips every input it cannot use, missing or
\* unopenable, and fails only when no usable image remains: with at least one
\* usable image it returns True and the document exists
C24_UnusableInputsSkipped ==
    (combRet # "none" /\ ~combSaveFailed) =>
        /\ combRet = "true" <=> Positions(combIn, {"img"}, 1) # <<>>
        /\ combRet = "true" => outPdf.exists

\* C23: when the conversion to pdf or png fails (and the raw capture can be
\* put in place), the scan still succeeds: it returns a path whose extension
\* is .jpg, and the file there holds the raw capture
C23_FallbackToJpg ==
    (scanCalls > 0 /\ convFallback /\ scanFailure # "copy") =>
        /\ scanRet # NoPath
        /\ scanRet.ext = ".jpg"
        /\ [path |-> scanRet, content |-> "jpg"] \in scanFiles

\* the inventory holds a device the request's device_id (or, without one,
\* the scanner type) selects
Resolvable ==
    IF scanReq.device_id # NoDevice
    THEN scanReq.device_id \in DOMAIN devices
    ELSE \E i \in DOMAIN devices : devices[i] = 1

\* C25: a scan connects to the device with the given device_id when one is
\* given, otherwise to the first enumerated device of scanner type; when no
\* device is resolved it returns None without a transfer and without
\* creating any file
C25_DeviceResolution ==
    scanCalls > 0 =>
        /\ connectTo # 0 =>
              IF scanReq.device_id # NoDevice
              THEN connectTo = scanReq.device_id
              ELSE /\ devices[connectTo] = 1
                   /\ \A j \in 1..(connectTo - 1) : devices[j] # 1
        /\ (Resolvable /\ scanFailure # "dispatch") => connectTo # 0
        /\ ~Resolvable =>
              /\ connectTo = 0
              /\ scanRet = NoPath
              /\ ~transferred
              /\ ~tempWritten
              /\ scanFiles = {}

\* a scan given the id of the second device connected to it and transferred,
\* although the first device is a scanner
C25_Witness ==
    /\ scanReq.device_id = 2
    /\ Len(devices) >= 2
    /\ devices[1] = 1
    /\ connectTo = 2
    /\ transferred

\* C26: a scanner property that rejects the resolution, brightness, contrast
\* or colour-intent value is skipped and does not fail the capture: the
\* transfer is still triggered
C26_RejectedPropertySkipped ==
    scanFailure = "prop" => transferred

\* C29: last_scanned_file is None until the first successful scan; after a
\* scan that returns a path it equals that path, and a scan that returns None
\* leaves it unchanged
C29_LastScannedFile ==
    /\ [](scanCalls = 0 => last_scanned_file = NoPath)
    /\ [][scanCalls' # scanCalls =>
              last_scanned_file' = IF scanRet' # NoPath THEN scanRet'
                                   ELSE last_scanned_file]_vars

\* a scan that returned None came after a successful one, whose path is kept
C29_Witness ==
    /\ scanCalls = 2
    /\ scanRet = NoPath
    /\ last_scanned_file # NoPath
    /\ last_scanned_file.n = 1

====
